---- MODULE Spec2Model ----
(***************************************************************************)
(* State-machine model of the 4D tensor visualizer engine (src/app.js).    *)
(*                                                                         *)
(* Units.  The program computes with IEEE doubles; the model keeps every   *)
(* quantity as an exact integer in a fixed unit:                           *)
(*   lengths and positions   1/10000 scene unit  (0.7 is 7000)             *)
(*   angles                  1/1000 radian       (0.5 is 500)              *)
(*   camera distance         1/100 scene unit    (25 is 2500)              *)
(*   explode factor          1/100               (0.3 is 30)               *)
(*   emissive / opacity      1/10                (0.3 is 3, 1.0 is 10)     *)
(*   activation values       1/1000000           (Math.random() in [0,1))  *)
(* A fraction w/h (aspect ratio, frustum extent) is the pair <<w, h>>.     *)
(*                                                                         *)
(* Left out: what no handler reads back (button labels and CSS classes,    *)
(* the slider value texts, the tooltip's screen position, the lights, the  *)
(* pixels renderer.render draws).                                          *)
(*                                                                         *)
(* Object identity.  new THREE.Group() / new THREE.Mesh() return objects   *)
(* distinct from every live object; objects are only ever compared for     *)
(* identity, so an object is modelled by a natural number that is fresh    *)
(* with respect to the objects still referenced.                           *)
(***************************************************************************)
EXTENDS Integers, Sequences, FiniteSets

VARIABLES
    state,         \* the `state` record (src/app.js lines 6-14)
    tensorBlocks,  \* registry: sequence of [group, cells]
    scene,         \* ids of the tensor groups currently added to the scene
    camera,        \* the camera object
    viewport,      \* client size of the #viewport element, <<width, height>>
    rendererSize,  \* size last handed to renderer.setSize
    tooltip,       \* the #tooltip element: [display, html]
    shapeDisplay,  \* text of the #shape-display element
    lastEvent      \* history: the event whose handler ran last

vars == <<state, tensorBlocks, scene, camera, viewport, rendererSize,
          tooltip, shapeDisplay, lastEvent>>

(***************************************************************************)
(* Bounds of the model (inputs drawn by the environment).                  *)
(***************************************************************************)
MaxDim == 1          \* largest value a shape slider delivers
MaxExplode == 1      \* largest raw value the explode slider delivers
MaxSeed == 1         \* random streams a rebuild can draw from: 0..MaxSeed
MaxPick == 1         \* the pointer ray only crosses front cells with s, d <= MaxPick
MaxMoveX == 1        \* |movementX| of a pointer event, pixels
MaxMoveY == 300      \* |movementY| of a pointer event, pixels
MaxWheel == 2000     \* |deltaY| of a wheel event
AzimuthSpan == 10    \* azimuth is explored within this distance of its default

(***************************************************************************)
(* Environment input sets.                                                 *)
(***************************************************************************)
\* Variant of DimSliderValues: range inputs whose minimum is 0.
DimSliderValues_FromZero == 0..MaxDim
\* Values of the four shape range inputs (the page bounds them to >= 1).
DimSliderValues == 1..MaxDim
\* Raw values of the explode range input (divided by 100 by the handler).
ExplodeSliderValues == 0..MaxExplode
DimKeys == {"H", "B", "S", "D"}
\* Client sizes the viewport element takes.
Viewports == {<<16, 9>>, <<4, 3>>}
\* Client size of the viewport element when the page loads.
InitialViewport == <<16, 9>>
\* Math.random(): a rebuild draws its values from one of a bounded family of
\* streams; Random(seed, k) is the k-th draw (k = 0, 1, ...) of stream seed.
RandomSamples == <<123454, 999996>>
Seeds == 0..MaxSeed
Random(seed, k) == RandomSamples[((seed + k) % Len(RandomSamples)) + 1]

(***************************************************************************)
(* Small pure helpers of the host language.                                *)
(***************************************************************************)
Min(a, b) == IF a < b THEN a ELSE b
Max(a, b) == IF a > b THEN a ELSE b
\* Number.prototype.toFixed(5) of a value in [0,1): the nearest multiple of
\* 0.00001, ties upward; the result is in units of 1/100000.
toFixed5(v) == (v + 5) \div 10

(***************************************************************************)
(* 1. Configuration and state.                                             *)
(***************************************************************************)
InitialState ==
    [H |-> 2, B |-> 8, S |-> 12, D |-> 8,
     explode |-> 30,
     is3D |-> TRUE,
     autoRotate |-> FALSE,
     isHeatmap |-> FALSE,
     cameraDist |-> 2500,
     angles |-> [x |-> 500, y |-> 400]]

(***************************************************************************)
(* 2. Camera.                                                              *)
(***************************************************************************)
\* The point d*(sin x cos y, sin y, cos x cos y), kept symbolically.
Spherical(d, ax, ay) == <<"spherical", d, ax, ay>>
Cartesian(x, y, z) == <<"cartesian", x, y, z>>

\* syncCamera(): the position it assigns to the current camera.
syncCamera(st) ==
    IF st.is3D
    THEN Spherical(st.cameraDist, st.angles.x, st.angles.y)
    ELSE Cartesian(0, 0, 300000)

\* Frustum field size of the orthographic camera.
f == 20

\* updateCamera(container): a new camera of the type state.is3D selects.
\* frustum is <<left, right, top, bottom>> (fractions) of an orthographic
\* camera and empty for a perspective camera; projection is what the
\* projection matrix was last computed from.
\* Variant of updateCamera: the new camera is left at its constructed position.
updateCamera_NoSync(st, vp) ==
    IF st.is3D
    THEN [type |-> "perspective", aspect |-> vp, frustum |-> <<>>,
          projection |-> <<vp>>, position |-> <<"cartesian", 0, 0, 0>>]
    ELSE LET fr == << <<-(f * vp[1]), 2 * vp[2]>>, <<f * vp[1], 2 * vp[2]>>,
                      <<f, 2>>, <<-f, 2>> >>
         IN  [type |-> "orthographic", aspect |-> <<>>, frustum |-> fr,
              projection |-> fr, position |-> <<"cartesian", 0, 0, 0>>]

updateCamera(st, vp) ==
    IF st.is3D
    THEN [type |-> "perspective", aspect |-> vp, frustum |-> <<>>,
          projection |-> <<vp>>, position |-> syncCamera(st)]
    ELSE LET fr == << <<-(f * vp[1]), 2 * vp[2]>>, <<f * vp[1], 2 * vp[2]>>,
                      <<f, 2>>, <<-f, 2>> >>
         IN  [type |-> "orthographic", aspect |-> <<>>, frustum |-> fr,
              projection |-> fr, position |-> syncCamera(st)]

(***************************************************************************)
(* 3. Tensor generation (renderTensor).                                    *)
(***************************************************************************)
cellSize == 7000
gap == 1500
depth == 2000

\* The constants renderTensor computes before its loops (lines 83-86).
blockW(st) == st.D * (cellSize + gap)
blockH(st) == st.S * (cellSize + gap)
headSpacing(st) == blockW(st) * 2
startX(st) == -(((st.H - 1) * headSpacing(st)) \div 2)

\* Drawables (meshes) created per block: S*D front cells, then the ghosts.
MeshesPerBlock(st) ==
    (IF st.B >= 1 THEN st.S * st.D ELSE 0) + (IF st.B >= 2 THEN st.B - 1 ELSE 0)

\* Emissive intensity a rebuild gives a front cell's material.
BaseEmissive(st) == IF st.isHeatmap THEN 3 ELSE 1

\* What is fixed during one run of renderTensor, computed once.
Metrics(st) ==
    [blockW |-> blockW(st), blockH |-> blockH(st),
     headSpacing |-> headSpacing(st), startX |-> startX(st),
     meshes |-> MeshesPerBlock(st), emissive |-> BaseEmissive(st),
     H |-> st.H, B |-> st.B, S |-> st.S, D |-> st.D,
     explode |-> st.explode, isHeatmap |-> st.isHeatmap]

\* Per batch index b (lines 93-95); explodeFac is 1 + explode*3 in hundredths.
explodeFac(m) == 100 + m.explode * 3
\* Variant of zOffset: the depth uses the lateral factor 1 + explode.
zOffset_LateralFactor(m, b) == -((b * (depth + 1000) * (100 + m.explode)) \div 100)
zOffset(m, b) == -((b * (depth + 1000) * explodeFac(m)) \div 100)
xyOffset(m, b) == (b * 1500 * (100 + m.explode)) \div 100

xPos(m, d) == -(m.blockW \div 2) + d * (cellSize + gap) + cellSize \div 2
yPos(m, s) == (m.blockH \div 2) - s * (cellSize + gap) - cellSize \div 2

\* Colour of a front cell: the fixed base colour, or the HSL sweep
\* hue = (240 - val*240)/360 (kept as its numerator, micro-degrees).
CellColor(m, val) ==
    IF m.isHeatmap
    THEN <<"hsl", 240 * (1000000 - val), 80, 50>>
    ELSE <<"hex", 5817565>>

\* Variant of Cell: the heatmap lifts a cell towards the viewer by its value.
Cell_HeatmapLift(m, seed, h, s, d) ==
    LET val == Random(seed, h * m.S * m.D + s * m.D + d)
    IN  [mesh |-> h * m.meshes + s * m.D + d,
         val |-> val,
         indices |-> [h |-> h, b |-> 0, s |-> s, d |-> d],
         origCol |-> CellColor(m, val),
         emissiveIntensity |-> m.emissive,
         edgeOpacity |-> 2,
         position |-> <<xPos(m, d) + xyOffset(m, 0),
                        yPos(m, s) + xyOffset(m, 0),
                        zOffset(m, 0) + (IF m.isHeatmap THEN val \div 100 ELSE 0)>>]

\* The cell pushed for (h, 0, s, d); seed selects the random stream.
Cell(m, seed, h, s, d) ==
    LET val == Random(seed, h * m.S * m.D + s * m.D + d)
    IN  [mesh |-> h * m.meshes + s * m.D + d,
         val |-> val,
         indices |-> [h |-> h, b |-> 0, s |-> s, d |-> d],
         origCol |-> CellColor(m, val),
         emissiveIntensity |-> m.emissive,
         edgeOpacity |-> 2,
         position |-> <<xPos(m, d) + xyOffset(m, 0),
                        yPos(m, s) + xyOffset(m, 0),
                        zOffset(m, 0)>>]

\* The ghost plane of batch index b >= 1.
Ghost(m, h, b) ==
    [mesh |-> h * m.meshes + m.S * m.D + (b - 1),
     b |-> b,
     size |-> <<m.blockW, m.blockH, depth \div 2>>,
     position |-> <<xyOffset(m, b), xyOffset(m, b), zOffset(m, b)>>]

\* Variant of Block: the batch loop runs one step too far (b <= B).
Block_GhostPerBatch(m, seed, h, gid) ==
    [group |-> [id |-> gid,
                x |-> m.startX + h * m.headSpacing,
                ghosts |-> [b \in 1..m.B |-> Ghost(m, h, b)]],
     cells |-> IF m.B >= 1
               THEN [i \in 1..(m.S * m.D) |->
                       Cell(m, seed, h, (i - 1) \div m.D, (i - 1) % m.D)]
               ELSE <<>>]

\* Variant of Block: the b === 0 test is missing, every batch index pushes
\* its S*D cells.
Block_CellsPerBatch(m, seed, h, gid) ==
    [group |-> [id |-> gid,
                x |-> m.startX + h * m.headSpacing,
                ghosts |-> [b \in 1..(m.B - 1) |-> Ghost(m, h, b)]],
     cells |-> [i \in 1..(m.B * m.S * m.D) |->
                  Cell(m, seed, h, ((i - 1) \div m.D) % m.S, (i - 1) % m.D)]]

\* Variant of Block: the front cells are generated column by column (d outer,
\* s inner).
Block_ColumnMajor(m, seed, h, gid) ==
    [group |-> [id |-> gid,
                x |-> m.startX + h * m.headSpacing,
                ghosts |-> [b \in 1..(m.B - 1) |-> Ghost(m, h, b)]],
     cells |-> IF m.B >= 1
               THEN [i \in 1..(m.S * m.D) |->
                       Cell(m, seed, h, (i - 1) % m.S, (i - 1) \div m.S)]
               ELSE <<>>]

\* blockData of head h; gid is the identity of its new group.
Block(m, seed, h, gid) ==
    [group |-> [id |-> gid,
                x |-> m.startX + h * m.headSpacing,
                ghosts |-> [b \in 1..(m.B - 1) |-> Ghost(m, h, b)]],
     cells |-> IF m.B >= 1
               THEN [i \in 1..(m.S * m.D) |->
                       Cell(m, seed, h, (i - 1) \div m.D, (i - 1) % m.D)]
               ELSE <<>>]

RECURSIVE FreshIds(_, _, _)
\* The n smallest naturals >= from that are not in used, in increasing order.
FreshIds(used, from, n) ==
    IF n <= 0 THEN <<>>
    ELSE IF from \in used THEN FreshIds(used, from + 1, n)
    ELSE <<from>> \o FreshIds(used, from + 1, n - 1)

GroupIds(blocks) == {blocks[i].group.id : i \in 1..Len(blocks)}

\* Variant of Cleanup: the registry is emptied, the scene is left as it is.
Cleanup_KeepsScene(sc, blocks) == sc

\* Cleanup (lines 76-77): the scene after every registered group is removed.
Cleanup(sc, blocks) == sc \ GroupIds(blocks)

\* The registry renderTensor builds; kept is the scene left by the cleanup.
NewBlocks(st, seed, kept) ==
    LET ids == FreshIds(kept, 0, st.H)
        m == Metrics(st)
    IN  [i \in 1..st.H |-> Block(m, seed, i - 1, ids[i])]

\* Text of the shape display, `[H, B, S, D]`: the four numbers in order.
ShapeText(st) == <<st.H, st.B, st.S, st.D>>

\* renderTensor() as an action on the registry, the scene and the display.
renderTensor(st, seed) ==
    LET kept == Cleanup(scene, tensorBlocks)
        blocks == NewBlocks(st, seed, kept)
    IN  /\ tensorBlocks' = blocks
        /\ scene' = kept \cup GroupIds(blocks)
        /\ shapeDisplay' = ShapeText(st)

\* History: the kind of the last event, the slider key it carried, whether
\* a button was held, and of a pointer move the mesh the pick returned (hit)
\* and the drawables the ray crossed that the pick was not run against
\* (missed).
Event(kind, key, drag, hit, missed) ==
    [kind |-> kind, key |-> key, drag |-> drag, hit |-> hit, missed |-> missed]

(***************************************************************************)
(* Initial state: init() has run (camera, renderer, first renderTensor).   *)
(***************************************************************************)
Init ==
    /\ state = InitialState
    /\ viewport = InitialViewport
    /\ rendererSize = viewport
    /\ camera = updateCamera(InitialState, viewport)
    /\ \E seed \in Seeds :
          /\ tensorBlocks = NewBlocks(InitialState, seed, {})
          /\ scene = GroupIds(tensorBlocks)
    /\ shapeDisplay = ShapeText(InitialState)
    /\ tooltip = [display |-> "none", html |-> <<>>]
    /\ lastEvent = Event("init", "", FALSE, <<>>, <<>>)

(***************************************************************************)
(* 4. Interactions.                                                        *)
(***************************************************************************)
RECURSIVE FlatCells(_)
\* tensorBlocks.flatMap(b => b.cells)
FlatCells(blocks) ==
    IF blocks = <<>> THEN <<>>
    ELSE Head(blocks).cells \o FlatCells(Tail(blocks))

\* The meshes of the ghost planes of a registry's groups.
GhostMeshes(blocks) ==
    UNION {{blocks[i].group.ghosts[b].mesh : b \in 1..Len(blocks[i].group.ghosts)}
             : i \in 1..Len(blocks)}

\* Variant of FrontMeshes: the pick is run against every mesh of the groups.
FrontMeshes_AllDrawables(blocks) ==
    LET cs == FlatCells(blocks)
    IN  {cs[i].mesh : i \in 1..Len(cs)} \cup GhostMeshes(blocks)

\* tensorBlocks.flatMap(b => b.cells.map(c => c.mesh)), as a set
FrontMeshes(blocks) ==
    LET cs == FlatCells(blocks) IN {cs[i].mesh : i \in 1..Len(cs)}

\* raycaster.intersectObjects(meshes): of the drawables the ray crosses
\* (nearest first) those that are in the list it is given.
intersectObjects(ray, meshes) == SelectSeq(ray, LAMBDA m : m \in meshes)

\* flatMap(...).find(c => c.mesh === mesh): the first cell with that mesh;
\* <<>> stands for undefined.
FindCell(blocks, mesh) ==
    LET cs == FlatCells(blocks)
        at == {i \in 1..Len(cs) : cs[i].mesh = mesh}
    IN  IF at = {} THEN <<>>
        ELSE <<cs[CHOOSE i \in at : \A j \in at : i <= j]>>

\* Variant of highlightCrossSection: only the row index is compared.
highlightCrossSection_RowOnly(blocks, s, d) ==
    LET Mark(c) ==
            IF c.indices.s = s
            THEN [c EXCEPT !.emissiveIntensity = 10, !.edgeOpacity = 10]
            ELSE [c EXCEPT !.emissiveIntensity = 1, !.edgeOpacity = 1]
    IN  [i \in 1..Len(blocks) |->
            [blocks[i] EXCEPT !.cells =
                [j \in 1..Len(blocks[i].cells) |-> Mark(blocks[i].cells[j])]]]

highlightCrossSection(blocks, s, d) ==
    LET Mark(c) ==
            IF c.indices.s = s /\ c.indices.d = d
            THEN [c EXCEPT !.emissiveIntensity = 10, !.edgeOpacity = 10]
            ELSE [c EXCEPT !.emissiveIntensity = 1, !.edgeOpacity = 1]
    IN  [i \in 1..Len(blocks) |->
            [blocks[i] EXCEPT !.cells =
                [j \in 1..Len(blocks[i].cells) |-> Mark(blocks[i].cells[j])]]]

\* Variant of resetHighlights: the heatmap flag is not consulted.
resetHighlights_IgnoresHeatmap(blocks, st) ==
    LET Base(c) == [c EXCEPT !.emissiveIntensity = 1, !.edgeOpacity = 2]
    IN  [i \in 1..Len(blocks) |->
            [blocks[i] EXCEPT !.cells =
                [j \in 1..Len(blocks[i].cells) |-> Base(blocks[i].cells[j])]]]

resetHighlights(blocks, st) ==
    LET Base(c) ==
            [c EXCEPT !.emissiveIntensity = IF st.isHeatmap THEN 3 ELSE 1,
                      !.edgeOpacity = 2]
    IN  [i \in 1..Len(blocks) |->
            [blocks[i] EXCEPT !.cells =
                [j \in 1..Len(blocks[i].cells) |-> Base(blocks[i].cells[j])]]]

\* The tooltip markup: INDEX [h, b, s, d] and ACTIVATION val.toFixed(5).
TooltipHtml(cell) ==
    <<cell.indices.h, cell.indices.b, cell.indices.s, cell.indices.d,
      toFixed5(cell.val)>>

\* link(id, key): the input handler of a shape slider delivering value v.
ShapeSlider(key, v) ==
    /\ state' = [state EXCEPT ![key] = v]
    /\ \E seed \in Seeds : renderTensor(state', seed)
    /\ lastEvent' = Event("slider", key, FALSE, <<>>, <<>>)
    /\ UNCHANGED <<camera, viewport, rendererSize, tooltip>>

\* Variant of ExplodeSlider: the slider is linked to the key B.
ExplodeSlider_WrongKey(v) ==
    /\ state' = [state EXCEPT !.B = v]
    /\ \E seed \in Seeds : renderTensor(state', seed)
    /\ lastEvent' = Event("slider", "explode", FALSE, <<>>, <<>>)
    /\ UNCHANGED <<camera, viewport, rendererSize, tooltip>>

\* link('ex-slider', 'explode', 100): raw value v is stored as v/100.
ExplodeSlider(v) ==
    /\ state' = [state EXCEPT !.explode = v]
    /\ \E seed \in Seeds : renderTensor(state', seed)
    /\ lastEvent' = Event("slider", "explode", FALSE, <<>>, <<>>)
    /\ UNCHANGED <<camera, viewport, rendererSize, tooltip>>

\* toggleView(is3D, btn): the btn-3d / btn-2d click handlers.
toggleView(is3D) ==
    /\ state' = [state EXCEPT !.is3D = is3D]
    /\ camera' = updateCamera(state', viewport)
    /\ \E seed \in Seeds : renderTensor(state', seed)
    /\ lastEvent' = Event("view", "", FALSE, <<>>, <<>>)
    /\ UNCHANGED <<viewport, rendererSize, tooltip>>

\* Variant of HeatmapClick: the flag is toggled and nothing is rebuilt.
HeatmapClick_NoRebuild ==
    /\ state' = [state EXCEPT !.isHeatmap = ~state.isHeatmap]
    /\ lastEvent' = Event("heatmap", "", FALSE, <<>>, <<>>)
    /\ UNCHANGED <<tensorBlocks, scene, shapeDisplay, camera, viewport,
                   rendererSize, tooltip>>

HeatmapClick ==
    /\ state' = [state EXCEPT !.isHeatmap = ~state.isHeatmap]
    /\ \E seed \in Seeds : renderTensor(state', seed)
    /\ lastEvent' = Event("heatmap", "", FALSE, <<>>, <<>>)
    /\ UNCHANGED <<camera, viewport, rendererSize, tooltip>>

RotateClick ==
    /\ state' = [state EXCEPT !.autoRotate = ~state.autoRotate]
    /\ lastEvent' = Event("rotate", "", FALSE, <<>>, <<>>)
    /\ UNCHANGED <<tensorBlocks, scene, camera, viewport, rendererSize,
                   tooltip, shapeDisplay>>

\* Variant of ResetClick: the distance is not restored.
ResetClick_KeepsDistance ==
    /\ state' = [state EXCEPT !.angles = [x |-> 500, y |-> 400]]
    /\ camera' = [camera EXCEPT !.position = syncCamera(state')]
    /\ lastEvent' = Event("reset", "", FALSE, <<>>, <<>>)
    /\ UNCHANGED <<tensorBlocks, scene, viewport, rendererSize, tooltip,
                   shapeDisplay>>

ResetClick ==
    /\ state' = [state EXCEPT !.angles = [x |-> 500, y |-> 400],
                              !.cameraDist = 2500]
    /\ camera' = [camera EXCEPT !.position = syncCamera(state')]
    /\ lastEvent' = Event("reset", "", FALSE, <<>>, <<>>)
    /\ UNCHANGED <<tensorBlocks, scene, viewport, rendererSize, tooltip,
                   shapeDisplay>>

\* The wheel handler; deltaY * 0.05 is 5 * deltaY hundredths.
Wheel(deltaY) ==
    /\ state' = [state EXCEPT !.cameraDist =
                    Max(500, Min(10000, state.cameraDist + deltaY * 5))]
    /\ camera' = [camera EXCEPT !.position = syncCamera(state')]
    /\ lastEvent' = Event("wheel", "", FALSE, <<>>, <<>>)
    /\ UNCHANGED <<tensorBlocks, scene, viewport, rendererSize, tooltip,
                   shapeDisplay>>

\* window.onresize, the viewport having taken client size vp.  It assigns
\* camera.aspect; updateProjectionMatrix() of a perspective camera reads
\* aspect, that of an orthographic camera reads left/right/top/bottom.
\* Variant of Resize: the handler also regenerates the tensor.
Resize_Rebuilds(vp) ==
    /\ viewport' = vp
    /\ camera' = [camera EXCEPT !.aspect = vp,
                    !.projection = IF camera.type = "perspective" THEN <<vp>> ELSE camera.frustum]
    /\ rendererSize' = vp
    /\ \E seed \in Seeds : renderTensor(state, seed)
    /\ lastEvent' = Event("resize", "", FALSE, <<>>, <<>>)
    /\ UNCHANGED <<state, tooltip>>

Resize(vp) ==
    /\ viewport' = vp
    /\ camera' = [camera EXCEPT
                    !.aspect = vp,
                    !.projection = IF camera.type = "perspective"
                                   THEN <<vp>> ELSE camera.frustum]
    /\ rendererSize' = vp
    /\ lastEvent' = Event("resize", "", FALSE, <<>>, <<>>)
    /\ UNCHANGED <<state, tensorBlocks, scene, tooltip, shapeDisplay>>

\* The azimuth grows without limit in the program; the model explores it
\* within AzimuthSpan of its default.
AzimuthExplored(st) ==
    /\ st.angles.x >= 500 - AzimuthSpan
    /\ st.angles.x <= 500 + AzimuthSpan

\* Variant of Orbit: the elevation is not clamped.
Orbit_NoClamp(st, buttons, movementX, movementY) ==
    IF buttons = 1
    THEN [st EXCEPT !.angles =
            [x |-> st.angles.x - movementX * 10,
             y |-> st.angles.y + movementY * 10]]
    ELSE st

\* state after the orbit branch of onMouseMove (lines 227-231).
Orbit(st, buttons, movementX, movementY) ==
    IF buttons = 1
    THEN [st EXCEPT !.angles =
            [x |-> st.angles.x - movementX * 10,
             y |-> Max(-1500, Min(1500, st.angles.y + movementY * 10))]]
    ELSE st

\* onMouseMove(e); ray lists the drawables under the pointer, nearest first.
onMouseMove(buttons, movementX, movementY, ray) ==
    LET intersects == intersectObjects(ray, FrontMeshes(tensorBlocks))
        found == IF intersects = <<>> THEN <<>>
                 ELSE FindCell(tensorBlocks, Head(intersects))
    IN  /\ state' = Orbit(state, buttons, movementX, movementY)
        /\ AzimuthExplored(state')
        /\ camera' = IF buttons = 1
                     THEN [camera EXCEPT !.position = syncCamera(state')]
                     ELSE camera
        /\ IF intersects # <<>>
           THEN IF found # <<>>
                THEN /\ tensorBlocks' = highlightCrossSection(tensorBlocks,
                                            found[1].indices.s, found[1].indices.d)
                     /\ tooltip' = [display |-> "block",
                                    html |-> TooltipHtml(found[1])]
                ELSE UNCHANGED <<tensorBlocks, tooltip>>
           ELSE /\ tooltip' = [tooltip EXCEPT !.display = "none"]
                /\ tensorBlocks' = resetHighlights(tensorBlocks, state')
        /\ lastEvent' = Event("mousemove", "", buttons = 1,
                              IF intersects = <<>> THEN <<>>
                              ELSE <<Head(intersects)>>,
                              SelectSeq(ray, LAMBDA m :
                                  m \notin FrontMeshes(tensorBlocks)))
        /\ UNCHANGED <<scene, viewport, rendererSize, shapeDisplay>>

\* animate(): one frame.  The next frame is always requested, so the tick
\* is always enabled again.
\* Variant of animate: the azimuth advances whether or not auto-rotation is on.
animate_Unconditional ==
    /\ state' = [state EXCEPT !.angles.x = state.angles.x + 5]
    /\ AzimuthExplored(state')
    /\ camera' = [camera EXCEPT !.position = syncCamera(state')]
    /\ lastEvent' = Event("tick", "", FALSE, <<>>, <<>>)
    /\ UNCHANGED <<tensorBlocks, scene, viewport, rendererSize, tooltip, shapeDisplay>>

animate ==
    /\ state' = IF state.autoRotate
                THEN [state EXCEPT !.angles.x = state.angles.x + 5]
                ELSE state
    /\ AzimuthExplored(state')
    /\ camera' = IF state.autoRotate
                 THEN [camera EXCEPT !.position = syncCamera(state')]
                 ELSE camera
    /\ lastEvent' = Event("tick", "", FALSE, <<>>, <<>>)
    /\ UNCHANGED <<tensorBlocks, scene, viewport, rendererSize, tooltip,
                   shapeDisplay>>

(***************************************************************************)
(* Pointer inputs.  A ray is the list of drawables it crosses, nearest     *)
(* first: nothing, one front cell, one ghost plane, a ghost plane in front *)
(* of a front cell of its head, or two front cells next to each other in   *)
(* a row.                                                                  *)
(***************************************************************************)
PickCells(blocks, i) ==
    {j \in 1..Len(blocks[i].cells) :
        /\ blocks[i].cells[j].indices.s <= MaxPick
        /\ blocks[i].cells[j].indices.d <= MaxPick}

\* Of the ghost planes the ray crosses the one nearest the front layer.
PickGhosts(blocks, i) ==
    {b \in 1..Len(blocks[i].group.ghosts) : b = 1}

Rays(blocks) ==
    LET N == 1..Len(blocks) IN
    {<<>>}
    \cup UNION {{<<blocks[i].cells[j].mesh>> : j \in PickCells(blocks, i)} : i \in N}
    \cup UNION {{<<blocks[i].group.ghosts[b].mesh>> : b \in PickGhosts(blocks, i)}
                 : i \in N}
    \cup UNION {{<<blocks[i].group.ghosts[1].mesh, blocks[i].cells[j].mesh>>
                    : j \in IF PickGhosts(blocks, i) = {} THEN {}
                            ELSE PickCells(blocks, i)} : i \in N}
    \cup UNION {{<<blocks[i].cells[p[1]].mesh, blocks[i].cells[p[2]].mesh>>
                    : p \in {q \in PickCells(blocks, i) \X PickCells(blocks, i) :
                              /\ blocks[i].cells[q[1]].indices.s
                                    = blocks[i].cells[q[2]].indices.s
                              /\ blocks[i].cells[q[1]].indices.d
                                    - blocks[i].cells[q[2]].indices.d \in {-1, 1}}}
                 : i \in N}

MovesX == (-MaxMoveX)..MaxMoveX
MovesY == {-MaxMoveY, 0, MaxMoveY}
WheelDeltas == {-MaxWheel, MaxWheel}

(***************************************************************************)
(* The events, and the specification of the whole program.                 *)
(***************************************************************************)
ShapeInput == \E key \in DimKeys, v \in DimSliderValues : ShapeSlider(key, v)
ExplodeInput == \E v \in ExplodeSliderValues : ExplodeSlider(v)
ViewClick == \E is3D \in BOOLEAN : toggleView(is3D)
WheelInput == \E deltaY \in WheelDeltas : Wheel(deltaY)
ResizeEvent == \E vp \in Viewports : Resize(vp)
PointerMove ==
    \E buttons \in {0, 1}, mx \in MovesX, my \in MovesY, ray \in Rays(tensorBlocks) :
        onMouseMove(buttons, mx, my, ray)
Tick == animate

Next ==
    \/ ShapeInput
    \/ ExplodeInput
    \/ ViewClick
    \/ HeatmapClick
    \/ RotateClick
    \/ ResetClick
    \/ WheelInput
    \/ ResizeEvent
    \/ PointerMove
    \/ Tick

Spec == Init /\ [][Next]_vars

(***************************************************************************)
(* Restrictions of Spec to the events of one concern; the variables the    *)
(* left-out events write keep the values the included events give them.    *)
(***************************************************************************)
\* The controls that rebuild the tensor.
NextLayout ==
    \/ ShapeInput
    \/ ExplodeInput
    \/ ViewClick
    \/ HeatmapClick

SpecLayout == Init /\ [][NextLayout]_vars

\* Hovering (pointer moves with no button held) between rebuilds.
HoverMove == \E ray \in Rays(tensorBlocks) : onMouseMove(0, 0, 0, ray)
HoverShapeInput ==
    \E key \in {"H", "S"}, v \in DimSliderValues : ShapeSlider(key, v)

NextHover ==
    \/ HoverMove
    \/ HoverShapeInput
    \/ HeatmapClick

SpecHover == Init /\ [][NextHover]_vars

\* Orbiting: drags (the pointer over no drawable), wheel, reset, the frame
\* tick, the rotate and view-mode buttons, and the D slider.
DragMove == \E mx \in MovesX, my \in MovesY : onMouseMove(1, mx, my, <<>>)
OrbitShapeInput == \E v \in DimSliderValues : ShapeSlider("D", v)

NextOrbit ==
    \/ DragMove
    \/ WheelInput
    \/ ResetClick
    \/ Tick
    \/ RotateClick
    \/ ViewClick
    \/ OrbitShapeInput

SpecOrbit == Init /\ [][NextOrbit]_vars

\* Window and view controls: resizing, the 3D/2D buttons, zoom, auto-rotation
\* and the frame tick.
NextResize ==
    \/ ResizeEvent
    \/ ViewClick
    \/ WheelInput
    \/ RotateClick
    \/ Tick

SpecResize == Init /\ [][NextResize]_vars

(***************************************************************************)
(* Properties.                                                             *)
(***************************************************************************)
ShapeValid(st) == st.H >= 1 /\ st.B >= 1 /\ st.S >= 1 /\ st.D >= 1

\* Number of interactive (front) cells of a registry.
TotalCells(blocks) == Len(FlatCells(blocks))

\* Per block: how many front cells and how many ghost layers.
Counts(blocks) ==
    [i \in 1..Len(blocks) |->
        <<Len(blocks[i].cells), Len(blocks[i].group.ghosts)>>]

\* Every position a rebuild assigned: head offset, cell and ghost positions.
Positions(blocks) ==
    [i \in 1..Len(blocks) |->
        [x |-> blocks[i].group.x,
         cells |-> [j \in 1..Len(blocks[i].cells) |->
                       blocks[i].cells[j].position],
         ghosts |-> [b \in 1..Len(blocks[i].group.ghosts) |->
                       blocks[i].group.ghosts[b].position]]]

\* C1: with H, B, S, D >= 1 the registry holds exactly H blocks, each with
\* exactly S*D front cells, all of batch index 0, and each block's group
\* holds exactly B-1 ghost layers.
C1_RebuildCounts ==
    ShapeValid(state) =>
        /\ Len(tensorBlocks) = state.H
        /\ \A i \in 1..Len(tensorBlocks) :
              /\ Len(tensorBlocks[i].cells) = state.S * state.D
              /\ \A j \in 1..Len(tensorBlocks[i].cells) :
                    tensorBlocks[i].cells[j].indices.b = 0
              /\ Len(tensorBlocks[i].group.ghosts) = state.B - 1

\* A rebuild by the S slider has produced 2 blocks of 1*8 cells, 7 ghosts each.
C1_Witness ==
    /\ lastEvent.kind = "slider" /\ lastEvent.key = "S"
    /\ state.H = 2 /\ state.B = 8 /\ state.S = 1 /\ state.D = 8
    /\ Len(tensorBlocks) = 2
    /\ Len(tensorBlocks[2].cells) = 8
    /\ Len(tensorBlocks[2].group.ghosts) = 7

\* C5: a B-slider event leaves the interactive cells as they were laid out:
\* the total is H*S*D before and after, the blocks, their head offsets and
\* their front-cell positions are the same, and the ghost layers number B-1.
C5_BatchSliderKeepsCells ==
    [][(lastEvent'.kind = "slider" /\ lastEvent'.key = "B"
            /\ ShapeValid(state) /\ ShapeValid(state'))
        => /\ TotalCells(tensorBlocks) = state.H * state.S * state.D
           /\ TotalCells(tensorBlocks') = state'.H * state'.S * state'.D
           /\ TotalCells(tensorBlocks') = TotalCells(tensorBlocks)
           /\ Len(tensorBlocks') = Len(tensorBlocks)
           /\ \A i \in 1..Len(tensorBlocks') :
                 /\ Positions(tensorBlocks')[i].x = Positions(tensorBlocks)[i].x
                 /\ Positions(tensorBlocks')[i].cells
                        = Positions(tensorBlocks)[i].cells
                 /\ Len(tensorBlocks'[i].group.ghosts) = state'.B - 1]_vars

\* The B slider has brought the 8 batches down to 1: no ghost layer is left
\* and the 192 cells are still there.
C5_Witness ==
    /\ lastEvent.kind = "slider" /\ lastEvent.key = "B"
    /\ state.B = 1 /\ state.H = 2 /\ state.S = 12 /\ state.D = 8
    /\ TotalCells(tensorBlocks) = 192
    /\ \A i \in 1..Len(tensorBlocks) : tensorBlocks[i].group.ghosts = <<>>

\* C6: an explode-slider event changes neither the number of blocks nor any
\* block's number of front cells or ghost layers, nor the cells' indices.
C6_ExplodeKeepsCounts ==
    [][(lastEvent'.kind = "slider" /\ lastEvent'.key = "explode")
        => /\ Len(tensorBlocks') = Len(tensorBlocks)
           /\ Counts(tensorBlocks') = Counts(tensorBlocks)
           /\ \A i \in 1..Len(tensorBlocks) :
                 \A j \in 1..Len(tensorBlocks[i].cells) :
                    tensorBlocks'[i].cells[j].indices
                        = tensorBlocks[i].cells[j].indices]_vars

\* The explode slider has moved the ghost layers of a tensor that has some.
C6_Witness ==
    /\ lastEvent.kind = "slider" /\ lastEvent.key = "explode"
    /\ state.explode = 0
    /\ state.B = 8
    /\ tensorBlocks[1].group.ghosts[7].position = <<10500, 10500, -21000>>

\* C7: the positions in the registry are those that a rebuild for the same
\* shape and explode factor yields under any heatmap flag, view mode, camera
\* orbit and random stream.
C7_LayoutDeterministic ==
    \A seed \in Seeds, hm \in BOOLEAN, v3 \in BOOLEAN :
        Positions(tensorBlocks) =
            Positions(NewBlocks([state EXCEPT !.isHeatmap = hm, !.is3D = v3,
                                              !.cameraDist = 7777,
                                              !.angles = [x |-> -777, y |-> 777]],
                                seed, {}))

\* The registry was rebuilt by the heatmap button, in 2D mode, after the
\* explode factor and the shape were changed.
C7_Witness ==
    /\ lastEvent.kind = "heatmap"
    /\ state.isHeatmap /\ ~state.is3D
    /\ state.explode = 1 /\ state.D = 1 /\ state.B = 8

\* The front cells that carry the emphasized visual state.
Emphasized(blocks) ==
    LET cs == FlatCells(blocks)
    IN  {i \in 1..Len(cs) :
            cs[i].emissiveIntensity = 10 /\ cs[i].edgeOpacity = 10}

\* Emissive intensity and edge opacity of every front cell.
Emphasis(blocks) ==
    [i \in 1..Len(blocks) |->
        [j \in 1..Len(blocks[i].cells) |->
            <<blocks[i].cells[j].emissiveIntensity,
              blocks[i].cells[j].edgeOpacity>>]]

\* C2: after a pointer move whose pick resolved to a front cell (h,0,s,d),
\* every front cell of every head with the same (s,d) is emphasized
\* (emissive 1.0, edge opacity 1.0), every other front cell is de-emphasized
\* (0.1, 0.1), and exactly H cells are emphasized, one per head.
C2_CrossSectionHighlighted ==
    (lastEvent.kind = "mousemove" /\ lastEvent.hit # <<>>) =>
        LET cs == FlatCells(tensorBlocks)
            hov == {i \in 1..Len(cs) : cs[i].mesh = lastEvent.hit[1]}
        IN  /\ Cardinality(hov) = 1
            /\ \A i \in hov :
                  /\ cs[i].indices.b = 0
                  /\ \A k \in 1..Len(cs) :
                        IF /\ cs[k].indices.s = cs[i].indices.s
                           /\ cs[k].indices.d = cs[i].indices.d
                        THEN cs[k].emissiveIntensity = 10 /\ cs[k].edgeOpacity = 10
                        ELSE cs[k].emissiveIntensity = 1 /\ cs[k].edgeOpacity = 1
            /\ Cardinality(Emphasized(tensorBlocks)) = state.H
            /\ \A h \in 0..(state.H - 1) :
                  Cardinality({k \in Emphasized(tensorBlocks) :
                                  cs[k].indices.h = h}) = 1

\* The cell (h=1, s=1, d=1) of the [2,8,12,8] tensor is hovered: 2 of the
\* 192 cells are emphasized.
C2_Witness ==
    /\ lastEvent.kind = "mousemove" /\ lastEvent.hit # <<>>
    /\ state.H = 2 /\ state.S = 12 /\ state.D = 8
    /\ tooltip.display = "block"
    /\ tooltip.html[1] = 1 /\ tooltip.html[3] = 1 /\ tooltip.html[4] = 1
    /\ Cardinality(Emphasized(tensorBlocks)) = 2
    /\ TotalCells(tensorBlocks) = 192

\* C3: the camera elevation stays within [-1.5, 1.5] and the camera
\* distance within [5, 100].
C3_OrbitClamped ==
    /\ state.angles.y >= -1500 /\ state.angles.y <= 1500
    /\ state.cameraDist >= 500 /\ state.cameraDist <= 10000

\* A drag has driven the elevation to its upper limit and the wheel the
\* distance to its lower limit.
C3_Witness ==
    /\ state.angles.y = 1500
    /\ state.cameraDist = 500
    /\ lastEvent.kind = "mousemove" /\ lastEvent.drag

\* C4: the reset event leaves angles = (0.5, 0.4) and distance = 25 whatever
\* they were, and leaves shape, explode, view mode, heatmap and autorotate
\* as they were.
C4_ResetRestoresDefaults ==
    [][(lastEvent'.kind = "reset")
        => /\ state'.angles = [x |-> 500, y |-> 400]
           /\ state'.cameraDist = 2500
           /\ state' = [state EXCEPT !.angles = [x |-> 500, y |-> 400],
                                     !.cameraDist = 2500]]_vars

\* Reset has run in 2D mode with autorotate on.
C4_Witness ==
    /\ lastEvent.kind = "reset"
    /\ state.autoRotate /\ ~state.is3D
    /\ state.angles = [x |-> 500, y |-> 400] /\ state.cameraDist = 2500

\* C8: the pick of a pointer move returns only a front cell (b = 0) of the
\* current registry, never a ghost plane; a move whose ray crosses no front
\* cell, ghost planes or not, resolves to none, hides the tooltip and puts
\* every cell back to baseline emphasis.
C8_PickFrontLayerOnly ==
    (lastEvent.kind = "mousemove") =>
        LET cs == FlatCells(tensorBlocks) IN
        /\ lastEvent.hit # <<>> =>
              /\ \E i \in 1..Len(cs) :
                    cs[i].mesh = lastEvent.hit[1] /\ cs[i].indices.b = 0
              /\ lastEvent.hit[1] \notin GhostMeshes(tensorBlocks)
        /\ lastEvent.hit = <<>> =>
              /\ tooltip.display = "none"
              /\ \A i \in 1..Len(cs) :
                    /\ cs[i].emissiveIntensity = (IF state.isHeatmap THEN 3 ELSE 1)
                    /\ cs[i].edgeOpacity = 2

\* The pointer left a hovered cell for a place where its ray crosses only a
\* ghost plane: the pick resolved to none.
C8_Witness ==
    /\ lastEvent.kind = "mousemove"
    /\ lastEvent.hit = <<>>
    /\ lastEvent.missed # <<>>
    /\ lastEvent.missed[1] \in GhostMeshes(tensorBlocks)
    /\ tooltip.display = "none" /\ tooltip.html # <<>>

\* C9: after a pointer move that resolved to none, the emphasis of every
\* front cell is the one a rebuild assigns under the current heatmap flag:
\* emissive 0.3 with the heatmap on, 0.1 with it off, edge opacity 0.2.
C9_MissRestoresBaseline ==
    (lastEvent.kind = "mousemove" /\ lastEvent.hit = <<>>) =>
        /\ \A seed \in Seeds :
              Emphasis(tensorBlocks) = Emphasis(NewBlocks(state, seed, {}))
        /\ Emphasis(tensorBlocks) =
              [i \in 1..Len(tensorBlocks) |->
                  [j \in 1..Len(tensorBlocks[i].cells) |->
                      <<IF state.isHeatmap THEN 3 ELSE 1, 2>>]]

\* With the heatmap on, a cell was hovered and the pointer then left it.
C9_Witness ==
    /\ lastEvent.kind = "mousemove" /\ lastEvent.hit = <<>>
    /\ state.isHeatmap
    /\ tooltip.html # <<>> /\ tooltip.display = "none"
    /\ TotalCells(tensorBlocks) = 192

\* C10: whenever the tooltip is visible, the four indices and the
\* activation value it shows are those of a cell of the current registry
\* (the cell the last pointer position resolved to).
C10_TooltipShowsHoveredCell ==
    (tooltip.display = "block") =>
        \E i \in 1..Len(FlatCells(tensorBlocks)) :
            TooltipHtml(FlatCells(tensorBlocks)[i]) = tooltip.html

\* C11: the tensor groups in the scene are exactly the groups of the current
\* registry, one per block and no more than H: nothing an earlier rebuild
\* created is left.
C11_NoStaleGroups ==
    /\ scene = GroupIds(tensorBlocks)
    /\ Cardinality(scene) = Len(tensorBlocks)
    /\ Cardinality(scene) <= state.H

\* The H slider has rebuilt a 2-head tensor as a 1-head tensor: one group
\* is in the scene.
C11_Witness ==
    /\ lastEvent.kind = "slider" /\ lastEvent.key = "H"
    /\ state.H = 1
    /\ Cardinality(scene) = 1
    /\ Len(tensorBlocks) = 1

C13_OrthoFrustumFollowsViewport ==
    ~state.is3D =>
        /\ camera.type = "orthographic"
        /\ camera.frustum[1][1] * 2 * viewport[2] = -(20 * viewport[1]) * camera.frustum[1][2]
        /\ camera.frustum[2][1] * 2 * viewport[2] = (20 * viewport[1]) * camera.frustum[2][2]
        /\ camera.frustum[3][1] = 10 * camera.frustum[3][2]
        /\ camera.frustum[4][1] = -10 * camera.frustum[4][2]

\* C15: a resize event changes the camera's projection parameters and the
\* renderer size only: the state record, the registry, the scene, the cells'
\* emphasis, the tooltip, the shape display and the camera's type and
\* position are what they were.
C15_ResizeTouchesProjectionOnly ==
    [][lastEvent'.kind = "resize" =>
          /\ state' = state
          /\ tensorBlocks' = tensorBlocks
          /\ scene' = scene
          /\ tooltip' = tooltip
          /\ shapeDisplay' = shapeDisplay
          /\ camera'.type = camera.type
          /\ camera'.position = camera.position
          /\ rendererSize' = viewport']_vars

\* A resize to 4:3 has just been handled on a perspective camera.
C15_Witness ==
    /\ lastEvent.kind = "resize"
    /\ viewport = <<4, 3>>
    /\ rendererSize = <<4, 3>>
    /\ camera.type = "perspective"
    /\ camera.projection = << <<4, 3>> >>

\* C14: the active camera agrees with the state record: it is a perspective
\* camera exactly when is3D holds; in 3D its position is the spherical
\* position of (cameraDist, angles.x, angles.y), in 2D it is (0, 0, 30).
C14_CameraInSync ==
    /\ (camera.type = "perspective") <=> state.is3D
    /\ (camera.type = "orthographic") <=> ~state.is3D
    /\ state.is3D =>
          camera.position = <<"spherical", state.cameraDist, state.angles.x, state.angles.y>>
    /\ ~state.is3D => camera.position = <<"cartesian", 0, 0, 300000>>

\* The 3D button was clicked after the orbit was changed: the new camera is
\* a perspective camera placed from the changed elevation and distance.
C14_Witness ==
    /\ lastEvent.kind = "view"
    /\ state.is3D
    /\ state.angles.y = -1500
    /\ state.cameraDist = 10000
    /\ camera.type = "perspective"
    /\ camera.position[4] = -1500

C18_ExplodeOffsets ==
    LET m == Metrics(state)
        e == state.explode
    IN  \A i \in 1..Len(tensorBlocks) :
           /\ \A b \in 1..Len(tensorBlocks[i].group.ghosts) :
                 LET g == tensorBlocks[i].group.ghosts[b] IN
                 /\ g.position = <<b * 15 * (100 + e), b * 15 * (100 + e),
                                   -(b * 30 * (100 + 3 * e))>>
                 /\ g.position[3] < 0
                 /\ b > 1 => g.position[3] < tensorBlocks[i].group.ghosts[b - 1].position[3]
                 /\ \A e2 \in {e + 1, 30, 100, 300} :
                       e2 > e =>
                          (zOffset([explode |-> e2], b) \div b) * (g.position[1] \div b)
                             < (g.position[3] \div b) * (xyOffset([explode |-> e2], b) \div b)
           /\ \A j \in 1..Len(tensorBlocks[i].cells) :
                 LET c == tensorBlocks[i].cells[j] IN
                 /\ c.position[3] = 0
                 /\ c.position[1] = xPos(m, c.indices.d)
                 /\ c.position[2] = yPos(m, c.indices.s)

\* The explode slider was set to 0.01 on a tensor with 7 ghost planes per
\* head: the last plane is at lateral offset 7*0.15*1.01 and depth
\* -7*0.3*1.03.
C18_Witness ==
    /\ lastEvent.kind = "slider" /\ lastEvent.key = "explode"
    /\ state.explode = 1
    /\ state.B = 8
    /\ tensorBlocks[1].group.ghosts[7].position = <<10605, 10605, -21630>>
    /\ tensorBlocks[1].cells[1].position[3] = 0

\* C19: the registry's cells are in one-to-one correspondence with the index
\* set [0,H) x {0} x [0,S) x [0,D): block h+1 holds the S*D cells of head h in
\* row-major order (s outer, d inner), and no mesh belongs to two cells.
C19_RegistryBijection ==
    /\ Len(tensorBlocks) = state.H
    /\ \A i \in 1..Len(tensorBlocks) :
          /\ Len(tensorBlocks[i].cells) = state.S * state.D
          /\ \A j \in 1..Len(tensorBlocks[i].cells) :
                tensorBlocks[i].cells[j].indices
                    = [h |-> i - 1, b |-> 0,
                       s |-> (j - 1) \div state.D, d |-> (j - 1) % state.D]
    /\ LET cs == FlatCells(tensorBlocks) IN
          /\ Cardinality({cs[k].mesh : k \in 1..Len(cs)}) = Len(cs)
          /\ Cardinality({cs[k].indices : k \in 1..Len(cs)}) = Len(cs)
          /\ {cs[k].indices : k \in 1..Len(cs)}
                = [h : 0..(state.H - 1), b : {0}, s : 0..(state.S - 1), d : 0..(state.D - 1)]

\* A rebuild of the [2, 8, 12, 8] tensor by the heatmap button: 192 cells,
\* cell 10 of block 2 is (h=1, s=1, d=1).
C19_Witness ==
    /\ lastEvent.kind = "heatmap"
    /\ state.H = 2 /\ state.S = 12 /\ state.D = 8
    /\ Len(tensorBlocks[2].cells) = 96
    /\ tensorBlocks[2].cells[10].indices = [h |-> 1, b |-> 0, s |-> 1, d |-> 1]

====
